---- MODULE Spec2Model ----
(***************************************************************************)
(* The reconciliation pipeline of backend/main.py (run_etl_pipeline and    *)
(* the /standardize route that calls it) and its financial column          *)
(* corrector clean_financials.                                             *)
(*                                                                         *)
(* A table is a sequence of rows; a row is a function from column names to *)
(* cells.  A cell of a text column is a string, NaN when the cell is       *)
(* missing.  A cell of a numeric column is Num(n), NA (pandas' NaN) or     *)
(* NonNumeric (a text such as "abc" that float() rejects).  Amounts of     *)
(* money and rates are fixed-point integers: Units(n) is n whole units in  *)
(* tenths, RateScale hundredths make one percent.  Pass-through columns    *)
(* (Completion_Date, Last_Updated, Issue, Transaction_Date,                *)
(* Lab_Report_Date) and the anomalies' Description text are left out.      *)
(***************************************************************************)
EXTENDS Integers, Sequences, FiniteSets, TLC

VARIABLES
    dfs,                \* the tables handed to the run, by logical source name
    pc,                 \* the position of the request in standardize_data / run_etl_pipeline
    anomalies,          \* the list run_etl_pipeline appends to
    df_mjp,             \* the financial table with Cleaned_Expenditure_INR
    unified,            \* the unified scheme table
    unified_districts,  \* the district table; Unbound before it is assigned
    result,             \* what the request returned or raised; NoResult before
    fin                 \* the corrector's rows: input, corrected, corrected again

vars == <<dfs, pc, anomalies, df_mjp, unified, unified_districts, result, fin>>

----------------------------------------------------------------------------
(* Cells *)

NaN == "<NaN>"
Num(n) == [t |-> "num", v |-> n]
NA == [t |-> "nan", v |-> 0]
NonNumeric == [t |-> "str", v |-> 0]

Units(n) == n * 10

\* pd.notnull on a numeric and on a text cell
notnull(c) == c.t # "nan"
notnull_text(s) == s # NaN

\* row.get(col, default)
Get(row, col, default) == IF col \in DOMAIN row THEN row[col] ELSE default

----------------------------------------------------------------------------
(* Sequences *)

Range(s) == {s[i] : i \in 1..Len(s)}

RECURSIVE Concat(_)
Concat(ss) == IF ss = << >> THEN << >> ELSE Head(ss) \o Concat(Tail(ss))

SeqsUpTo(S, n) == UNION {[1..k -> S] : k \in 0..n}
NonEmptySeqsUpTo(S, n) == UNION {[1..k -> S] : k \in 1..n}

RECURSIVE SumSeq(_)
SumSeq(s) == IF s = << >> THEN 0 ELSE Head(s) + SumSeq(Tail(s))

\* The distinct elements of s in order of first appearance (Series.unique)
RECURSIVE Unique(_)
Unique(s) ==
    IF s = << >> THEN << >>
    ELSE LET init == Unique(SubSeq(s, 1, Len(s) - 1))
             last == s[Len(s)]
         IN IF last \in Range(init) THEN init ELSE Append(init, last)

Abs(x) == IF x < 0 THEN -x ELSE x

----------------------------------------------------------------------------
(* Configuration *)

Sources == {"imis_tap", "imis_schemes", "zp", "mjp", "gsda", "pgrs"}

STATE_MAPPING ==
    [k \in {"A & N Islands", "Andaman & Nicobar Islands", "Maharashtra"} |->
        IF k = "Maharashtra" THEN "Maharashtra" ELSE "Andaman & Nicobar Islands"]

STATE_MAPPING_values == {STATE_MAPPING[k] : k \in DOMAIN STATE_MAPPING}

SwapThreshold == 1000
MismatchTolerance == 1
CompletedProgress == 90
RateScale == 100

----------------------------------------------------------------------------
(* The financial column corrector *)

\* float(x) if pd.notnull(x) else 0.0, for a cell float() accepts
FloatOrZero(c) == IF notnull(c) THEN c.v ELSE 0

clean_financials_or(row) ==
    LET a == row["Expenditure_Actuals"]
        l == row["Expenditure_Lakhs"]
    IN IF a.t = "str" \/ l.t = "str" THEN <<0, 0>>
       ELSE LET act == FloatOrZero(a)
                lakhs == FloatOrZero(l)
            IN IF lakhs > Units(SwapThreshold) \/ act < Units(SwapThreshold)
               THEN <<lakhs, act>>
               ELSE <<act, lakhs>>

clean_financials_nulltozero(row) ==
    LET a == row["Expenditure_Actuals"]
        l == row["Expenditure_Lakhs"]
    IN IF a.t # "num" \/ l.t # "num" THEN <<0, 0>>
       ELSE IF l.v > Units(SwapThreshold) /\ a.v < Units(SwapThreshold)
            THEN <<l.v, a.v>> ELSE <<a.v, l.v>>

\* The pair (actuals, lakhs) the corrector returns; float() raising on either
\* cell is caught and gives (0.0, 0.0)
clean_financials(row) ==
    LET a == row["Expenditure_Actuals"]
        l == row["Expenditure_Lakhs"]
    IN IF a.t = "str" \/ l.t = "str" THEN <<0, 0>>
       ELSE LET act == FloatOrZero(a)
                lakhs == FloatOrZero(l)
            IN IF lakhs > Units(SwapThreshold) /\ act < Units(SwapThreshold)
               THEN <<lakhs, act>>
               ELSE <<act, lakhs>>

----------------------------------------------------------------------------
(* Table operations *)

NumericCols ==
    {"Physical_Progress", "Financial_Progress", "Cleaned_Expenditure_INR",
     "Expenditure_Actuals", "Expenditure_Lakhs", "Samples_Tested",
     "Contaminated_Samples", "Total_Grievances"}

Null(col) == IF col \in NumericCols THEN NA ELSE NaN

\* Scheme identifiers and district names in lexicographic order: the order in
\* which an outer merge and a groupby arrange their keys
KeyOrder == <<"20118869", "MJP-5000", "SCH-10000000">>
DistrictOrder == <<"Pune", "Thane">>

\* str.lower() on the status texts of the model
Lower(s) ==
    CASE s \in {"Completed", "COMPLETED", "completed"} -> "completed"
      [] s \in {"Ongoing", "ongoing"} -> "ongoing"
      [] s \in {"NaN", "nan"} -> "nan"
      [] OTHER -> s

\* One row of pd.merge(left, right, on="Scheme_ID"): the key, the left row's
\* other columns, the right row's; a column both sides have takes its suffix
JoinRow(k, l, r, sl, sr) ==
    LET lc == DOMAIN l \ {"Scheme_ID"}
        rc == DOMAIN r \ {"Scheme_ID"}
        LName(c) == IF c \in rc THEN c \o sl ELSE c
        RName(c) == IF c \in lc THEN c \o sr ELSE c
    IN [c \in {"Scheme_ID"} |-> k]
       @@ [n \in {LName(c) : c \in lc} |-> l[CHOOSE c \in lc : LName(c) = n]]
       @@ [n \in {RName(c) : c \in rc} |-> r[CHOOSE c \in rc : RName(c) = n]]

NullRow(cols) == [c \in cols |-> Null(c)]

\* pd.merge(left, right, on="Scheme_ID", how="outer", suffixes=(sl, sr)) of
\* tables with columns lcols and rcols: keys in sorted order, and for a key
\* on both sides every pair of its rows, the left row's order first
MergeOuter(left, lcols, right, rcols, sl, sr) ==
    LET ForKey(k) ==
            LET ls == SelectSeq(left, LAMBDA x : x["Scheme_ID"] = k)
                rs == SelectSeq(right, LAMBDA x : x["Scheme_ID"] = k)
            IN IF rs = << >>
               THEN [i \in 1..Len(ls) |-> JoinRow(k, ls[i], NullRow(rcols), sl, sr)]
               ELSE IF ls = << >>
               THEN [j \in 1..Len(rs) |-> JoinRow(k, NullRow(lcols), rs[j], sl, sr)]
               ELSE Concat([i \in 1..Len(ls) |->
                        [j \in 1..Len(rs) |-> JoinRow(k, ls[i], rs[j], sl, sr)]])
    IN Concat([n \in 1..Len(KeyOrder) |-> ForKey(KeyOrder[n])])

\* column = column.fillna(other); drop other
FillFrom(rows, col, other) ==
    [i \in 1..Len(rows) |->
        [c \in DOMAIN rows[i] \ {other} |->
            IF c = col /\ rows[i][col] = NaN THEN rows[i][other] ELSE rows[i][c]]]

\* a Python comparison of a numeric cell with a number: "abc" == 0 is False,
\* NaN > 0 is False, "abc" > 0 raises TypeError
PyEq(c, n) == c.t = "num" /\ c.v = n
PyGt(c, n) == c.t = "num" /\ c.v > n
PyGtRaises(c) == c.t = "str"

ImisCols == {"Scheme_ID", "District", "Scheme_Name", "Status"}
ZpCols == {"Scheme_ID", "District", "Physical_Progress", "Financial_Progress"}
MjpGroupedCols == {"Scheme_ID", "District", "Cleaned_Expenditure_INR"}

\* df_imis: the scheme master with IMIS_ID renamed to Scheme_ID
df_imis(d) ==
    [i \in 1..Len(d["imis_schemes"]) |->
        LET r == d["imis_schemes"][i]
        IN [c \in ImisCols |-> IF c = "Scheme_ID" THEN r["IMIS_ID"] ELSE r[c]]]

----------------------------------------------------------------------------
(* 1. Anomaly detection *)

Anomaly(id, type, severity) ==
    [Scheme_ID |-> id, Issue_Type |-> type, Severity |-> severity]

Raised(error) == [status |-> "error", error |-> error]

NamingCheck_keys(d) ==
    IF "gsda" \in DOMAIN d
    THEN LET non_std == SelectSeq(d["gsda"],
                            LAMBDA row : row["State_Name"] \notin DOMAIN STATE_MAPPING)
         IN [i \in 1..Len(non_std) |-> Anomaly("N/A", "Naming Convention", "Medium")]
    ELSE << >>

\* Naming Convention: one anomaly per water-quality row whose State_Name is
\* not among STATE_MAPPING's values
NamingCheck(d) ==
    IF "gsda" \in DOMAIN d
    THEN LET non_std == SelectSeq(d["gsda"],
                            LAMBDA row : row["State_Name"] \notin STATE_MAPPING_values)
         IN [i \in 1..Len(non_std) |-> Anomaly("N/A", "Naming Convention", "Medium")]
    ELSE << >>

merged_check(d) == MergeOuter(df_imis(d), ImisCols, d["zp"], ZpCols, "_IMIS", "_ZP")

\* The body of the loop over merged_check for one row: the anomalies it
\* appends, and whether fin_prog > 0 raises
SyncGhostRow(row) ==
    LET status == IF notnull_text(row["Status"]) THEN Lower(row["Status"]) ELSE ""
        phy_prog == IF notnull(row["Physical_Progress"])
                    THEN row["Physical_Progress"] ELSE Num(0)
        fin_prog == Get(row, "Financial_Progress", Num(0))
        sync == IF status = "completed" /\ PyEq(phy_prog, 0)
                THEN <<Anomaly(row["Scheme_ID"], "Sync Conflict", "Critical")>>
                ELSE << >>
    IN IF PyEq(phy_prog, 0) /\ PyGtRaises(fin_prog)
       THEN [anomalies |-> sync, error |-> "TypeError"]
       ELSE [anomalies |-> sync \o
                (IF PyEq(phy_prog, 0) /\ PyGt(fin_prog, 0)
                 THEN <<Anomaly(row["Scheme_ID"], "Ghost Asset", "High")>>
                 ELSE << >>),
             error |-> "none"]

\* A loop over rows that appends each row's anomalies until a row raises
RECURSIVE Loop(_, _, _)
Loop(rows, Body(_), acc) ==
    IF rows = << >> THEN [anomalies |-> acc, error |-> "none"]
    ELSE LET step == Body(Head(rows))
         IN IF step.error # "none"
            THEN [anomalies |-> acc \o step.anomalies, error |-> step.error]
            ELSE Loop(Tail(rows), Body, acc \o step.anomalies)

SyncGhostCheck_prepend(d, acc) ==
    IF "zp" \in DOMAIN d
    THEN LET r == Loop(merged_check(d), SyncGhostRow, << >>)
         IN [anomalies |-> r.anomalies \o acc, error |-> r.error]
    ELSE [anomalies |-> acc, error |-> "none"]

\* The sync and ghost checks, appending to the anomalies found so far
SyncGhostCheck(d, acc) ==
    IF "zp" \in DOMAIN d THEN Loop(merged_check(d), SyncGhostRow, acc)
    ELSE [anomalies |-> acc, error |-> "none"]

\* df_mjp with its Cleaned_Expenditure_INR column
WithCleaned(mjp) ==
    [i \in 1..Len(mjp) |->
        mjp[i] @@ [c \in {"Cleaned_Expenditure_INR"} |-> Num(clean_financials(mjp[i])[1])]]

\* The body of the loop over df_mjp for one row; float() of a non-numeric
\* Expenditure_Actuals raises ValueError, and NaN compares False
ColumnMismatchRow(row) ==
    LET a == row["Expenditure_Actuals"]
    IN IF a.t = "str" THEN [anomalies |-> << >>, error |-> "ValueError"]
       ELSE [anomalies |->
                IF a.t = "num" /\
                   Abs(a.v - row["Cleaned_Expenditure_INR"].v) > Units(MismatchTolerance)
                THEN <<Anomaly(row["Scheme_Code"], "Column Mismatch", "Medium")>>
                ELSE << >>,
             error |-> "none"]

\* df_mjp.rename(columns={'Scheme_Code': 'Scheme_ID'})
RenameSchemeCode(mjp) ==
    [i \in 1..Len(mjp) |->
        [c \in (DOMAIN mjp[i] \ {"Scheme_Code"}) \cup {"Scheme_ID"} |->
            IF c = "Scheme_ID" THEN mjp[i]["Scheme_Code"] ELSE mjp[i][c]]]

\* pd.to_datetime of a date cell: the day as yyyymmdd, NaT for a missing cell
\* (it compares False), or an error for a text that is no date
KnownDates == [s \in {"2024-03-01", "2024-03-06"} |->
                 IF s = "2024-03-01" THEN 20240301 ELSE 20240306]

to_datetime(s) ==
    IF s = NaN THEN [t |-> "NaT", v |-> 0]
    ELSE IF s \in DOMAIN KnownDates THEN [t |-> "ts", v |-> KnownDates[s]]
    ELSE [t |-> "error", v |-> 0]

\* The body of the loop over pgrs for one row; the try/except swallows what
\* to_datetime raises
LogicalDateRow(row) ==
    LET resolved == to_datetime(row["Date_Resolved"])
        reported == to_datetime(row["Date_Reported"])
    IN [anomalies |->
            IF resolved.t = "ts" /\ reported.t = "ts" /\ resolved.v < reported.v
            THEN <<Anomaly(row["Ticket_ID"], "Logical Data Error", "Low")>>
            ELSE << >>,
        error |-> "none"]

----------------------------------------------------------------------------
(* 2. Repo generation *)

\* df_mjp.groupby(['Scheme_ID', 'District'])['Cleaned_Expenditure_INR'].sum()
\* .reset_index(): one row per key pair, in sorted order
src_mjp(mjp) ==
    LET Group(k, dist) ==
            SelectSeq(mjp, LAMBDA r : r["Scheme_ID"] = k /\ r["District"] = dist)
        ForPair(k, dist) ==
            IF Group(k, dist) = << >> THEN << >>
            ELSE <<[Scheme_ID |-> k, District |-> dist,
                    Cleaned_Expenditure_INR |->
                        Num(SumSeq([i \in 1..Len(Group(k, dist)) |->
                                Group(k, dist)[i]["Cleaned_Expenditure_INR"].v]))]>>
    IN Concat([n \in 1..Len(KeyOrder) |->
            Concat([m \in 1..Len(DistrictOrder) |->
                ForPair(KeyOrder[n], DistrictOrder[m])])])

\* The universal outer join: the scheme master, then zp when it has rows, then
\* the grouped financial rows when there are any, District filled from the
\* joined side where it is missing
UniversalJoin(d, mjp) ==
    LET src_imis == df_imis(d)
        src_zp == IF "zp" \in DOMAIN d THEN d["zp"] ELSE << >>
        grouped == IF "mjp" \in DOMAIN d THEN src_mjp(mjp) ELSE << >>
        with_zp == IF src_zp # << >>
                   THEN FillFrom(MergeOuter(src_imis, ImisCols, src_zp, ZpCols, "", "_ZP"),
                                 "District", "District_ZP")
                   ELSE src_imis
        cols == IF src_zp # << >> THEN ImisCols \cup ZpCols ELSE ImisCols
    IN IF grouped # << >>
       THEN FillFrom(MergeOuter(with_zp, cols, grouped, MjpGroupedCols, "", "_MJP"),
                     "District", "District_MJP")
       ELSE with_zp

\* Clean Values: fillna(0) on the numeric columns, fillna("-") on the text ones
CleanValues(rows) ==
    [i \in 1..Len(rows) |->
        [c \in DOMAIN rows[i] |->
            IF c \in {"Physical_Progress", "Financial_Progress", "Cleaned_Expenditure_INR"}
            THEN (IF notnull(rows[i][c]) THEN rows[i][c] ELSE Num(0))
            ELSE IF c \in {"Scheme_Name", "Status", "District"}
            THEN (IF notnull_text(rows[i][c]) THEN rows[i][c] ELSE "-")
            ELSE rows[i][c]]]

determine_status_ongoing_first(row) ==
    LET status == Lower(Get(row, "Status", "-"))
        phy == Get(row, "Physical_Progress", Num(0))
        fin_mjp == Get(row, "Cleaned_Expenditure_INR", Num(0))
    IN IF status = "completed" /\ PyEq(phy, 0) THEN "DATA CONFLICT"
       ELSE IF status = "-" \/ status = "nan"
       THEN (IF PyGt(phy, 0) THEN "Ongoing (ZP)"
             ELSE IF PyGt(phy, CompletedProgress) THEN "Completed (ZP)"
             ELSE IF PyGt(fin_mjp, 0) THEN "Financial Only"
             ELSE "Unknown")
       ELSE Get(row, "Status", "-")

\* Status inference for one unified row
determine_status(row) ==
    LET status == Lower(Get(row, "Status", "-"))
        phy == Get(row, "Physical_Progress", Num(0))
        fin_mjp == Get(row, "Cleaned_Expenditure_INR", Num(0))
    IN IF status = "completed" /\ PyEq(phy, 0) THEN "DATA CONFLICT"
       ELSE IF status = "-" \/ status = "nan"
       THEN (IF PyGt(phy, CompletedProgress) THEN "Completed (ZP)"
             ELSE IF PyGt(phy, 0) THEN "Ongoing (ZP)"
             ELSE IF PyGt(fin_mjp, 0) THEN "Financial Only"
             ELSE "Unknown")
       ELSE Get(row, "Status", "-")

\* phy > 90 raises TypeError on a non-numeric progress value
determine_status_raises(row) ==
    LET status == Lower(Get(row, "Status", "-"))
        phy == Get(row, "Physical_Progress", Num(0))
    IN ~(status = "completed" /\ PyEq(phy, 0))
       /\ (status = "-" \/ status = "nan")
       /\ PyGtRaises(phy)

\* Unified_Status, and Scheme_Name synthesized where it is the sentinel
WithStatus(rows) ==
    [i \in 1..Len(rows) |->
        [c \in DOMAIN rows[i] \cup {"Unified_Status"} |->
            IF c = "Unified_Status" THEN determine_status(rows[i])
            ELSE IF c = "Scheme_Name" /\ rows[i][c] \in {"-", "nan", ""}
            THEN "Scheme " \o rows[i]["Scheme_ID"]
            ELSE rows[i][c]]]

----------------------------------------------------------------------------
(* Districts and master *)

\* unified_schemes['District'].unique() without the sentinel
unique_districts(rows) ==
    SelectSeq(Unique([i \in 1..Len(rows) |-> rows[i]["District"]]),
              LAMBDA x : x # "-")

\* the sum of a column over the rows of one district; NaN cells are skipped
GroupSum(table, keycol, key, col) ==
    LET g == SelectSeq(table, LAMBDA r : r[keycol] = key)
    IN SumSeq([i \in 1..Len(g) |-> FloatOrZero(g[i][col])])

GroupSize(table, keycol, key) ==
    Len(SelectSeq(table, LAMBDA r : r[keycol] = key))

\* round(x, 2) of x = num / den percent, in hundredths: to the nearest, a tie
\* to the even neighbour
RoundedRate(num, den) ==
    LET scaled == num * 100 * RateScale
        q == scaled \div den
        r == scaled % den
    IN IF 2 * r < den THEN q
       ELSE IF 2 * r > den THEN q + 1
       ELSE IF q % 2 = 0 THEN q ELSE q + 1

calc_rate(row) ==
    IF row["Samples_Tested"] > 0
    THEN RoundedRate(row["Contaminated_Samples"], row["Samples_Tested"])
    ELSE 0

\* The district table when gsda is present: the aggregates left-joined onto
\* the districts of the unified schemes, missing ones 0, and the rate
Districts(d, rows) ==
    LET names == unique_districts(rows)
        Aggregates(n) ==
            [District_Name |-> n,
             Samples_Tested |-> GroupSum(d["gsda"], "District_Name", n, "Samples_Tested"),
             Contaminated_Samples |->
                 GroupSum(d["gsda"], "District_Name", n, "Contaminated_Samples"),
             Total_Grievances |->
                 IF "pgrs" \in DOMAIN d THEN GroupSize(d["pgrs"], "District", n) ELSE 0]
    IN [i \in 1..Len(names) |->
            Aggregates(names[i]) @@
            [c \in {"Contamination_Rate"} |-> calc_rate(Aggregates(names[i]))]]

\* unified_master: the scheme rows left-joined onto the district rows
Master(rows, districts) ==
    [i \in 1..Len(rows) |->
        LET m == SelectSeq(districts, LAMBDA x : x["District_Name"] = rows[i]["District"])
        IN rows[i] @@
           [c \in {"Samples_Tested", "Contaminated_Samples", "Total_Grievances",
                   "Contamination_Rate"} |->
                IF m = << >> THEN 0 ELSE m[1][c]]]

----------------------------------------------------------------------------
(* The request: standardize_data, then run_etl_pipeline stage by stage *)

NoResult == [status |-> "none"]
Unbound == [bound |-> FALSE, rows |-> << >>]
Bound(rows) == [bound |-> TRUE, rows |-> rows]

Raise(error) ==
    /\ pc' = "raised"
    /\ result' = Raised(error)

\* The route refuses a request without the scheme master
standardize_data ==
    /\ pc = "standardize"
    /\ IF "imis_schemes" \notin DOMAIN dfs
       THEN Raise("HTTPException")
       ELSE pc' = "naming" /\ UNCHANGED result
    /\ UNCHANGED <<dfs, anomalies, df_mjp, unified, unified_districts, fin>>

DetectNaming ==
    /\ pc = "naming"
    /\ anomalies' = anomalies \o NamingCheck(dfs)
    /\ pc' = "sync"
    /\ UNCHANGED <<dfs, df_mjp, unified, unified_districts, result, fin>>

DetectSyncGhost ==
    /\ pc = "sync"
    /\ LET r == SyncGhostCheck(dfs, anomalies)
       IN /\ anomalies' = r.anomalies
          /\ IF r.error # "none" THEN Raise(r.error)
             ELSE pc' = "column" /\ UNCHANGED result
    /\ UNCHANGED <<dfs, df_mjp, unified, unified_districts, fin>>

DetectColumnMismatch ==
    /\ pc = "column"
    /\ IF "mjp" \in DOMAIN dfs
       THEN LET cleaned == WithCleaned(dfs["mjp"])
                r == Loop(cleaned, ColumnMismatchRow, anomalies)
            IN /\ anomalies' = r.anomalies
               /\ IF r.error # "none"
                  THEN Raise(r.error) /\ df_mjp' = cleaned
                  ELSE /\ pc' = "logical"
                       /\ df_mjp' = RenameSchemeCode(cleaned)
                       /\ UNCHANGED result
       ELSE /\ pc' = "logical"
            /\ df_mjp' = << >>
            /\ UNCHANGED <<anomalies, result>>
    /\ UNCHANGED <<dfs, unified, unified_districts, fin>>

DetectLogicalDates ==
    /\ pc = "logical"
    /\ anomalies' = IF "pgrs" \in DOMAIN dfs
                    THEN Loop(dfs["pgrs"], LogicalDateRow, anomalies).anomalies
                    ELSE anomalies
    /\ pc' = "merge"
    /\ UNCHANGED <<dfs, df_mjp, unified, unified_districts, result, fin>>

GenerateSchemes ==
    /\ pc = "merge"
    /\ LET filled == CleanValues(UniversalJoin(dfs, df_mjp))
       IN IF \E i \in 1..Len(filled) : determine_status_raises(filled[i])
          THEN Raise("TypeError") /\ unified' = filled
          ELSE /\ unified' = WithStatus(filled)
               /\ pc' = "districts"
               /\ UNCHANGED result
    /\ UNCHANGED <<dfs, anomalies, df_mjp, unified_districts, fin>>

\* Without gsda the else branch assigns a column of unified_districts before
\* any assignment of unified_districts itself: UnboundLocalError
GenerateDistricts ==
    /\ pc = "districts"
    /\ IF "gsda" \in DOMAIN dfs
       THEN /\ unified_districts' = Bound(Districts(dfs, unified))
            /\ pc' = "return"
            /\ UNCHANGED result
       ELSE Raise("UnboundLocalError") /\ UNCHANGED unified_districts
    /\ UNCHANGED <<dfs, anomalies, df_mjp, unified, fin>>

Return ==
    /\ pc = "return"
    /\ result' = [status |-> "success",
                  anomalies |-> anomalies,
                  repo_schemes |-> unified,
                  repo_districts |-> unified_districts.rows,
                  repo_master |-> Master(unified, unified_districts.rows)]
    /\ pc' = "done"
    /\ UNCHANGED <<dfs, anomalies, df_mjp, unified, unified_districts, fin>>

Next ==
    \/ standardize_data
    \/ DetectNaming
    \/ DetectSyncGhost
    \/ DetectColumnMismatch
    \/ DetectLogicalDates
    \/ GenerateSchemes
    \/ GenerateDistricts
    \/ Return

----------------------------------------------------------------------------
(* The inputs of the model *)

MaxRows == 2

Table(key, rows) == [s \in {key} |-> rows]

ImisRows ==
    [IMIS_ID : {"20118869", "SCH-10000000"}, District : {"Thane"},
     Scheme_Name : {"Retrofitted PWS Thane"},
     Status : {"Completed", "COMPLETED", "Ongoing", NaN}]

ZpRows ==
    {[Scheme_ID |-> id, District |-> "Pune",
      Physical_Progress |-> Num(p[1]), Financial_Progress |-> Num(p[2])] :
        id \in {"20118869", "SCH-10000000"},
        p \in {<<0, 0>>, <<0, 45>>, <<50, 45>>, <<95, 0>>}}

\* zp rows with missing or non-numeric progress values
MalformedZpRows ==
    [Scheme_ID : {"20118869"}, District : {NaN},
     Physical_Progress : {Num(0), Num(95), NA, NonNumeric},
     Financial_Progress : {Num(45), NA, NonNumeric}]

\* amounts in tenths: 50, 999.5, 1000.4 and 5000000, a missing and a
\* non-numeric cell
FinCells == {Num(0), Num(500), Num(9995), Num(10000), Num(10004), Num(50000000),
             NA, NonNumeric}

MjpRows ==
    {[Scheme_Code |-> id, District |-> dist,
      Expenditure_Actuals |-> p[1], Expenditure_Lakhs |-> p[2]] :
        id \in {"20118869", "MJP-5000"}, dist \in {"Pune", "Thane"},
        p \in {<<Num(50000000), Num(500)>>, <<Num(500), Num(50000000)>>,
               <<Num(9995), Num(10004)>>, <<NonNumeric, Num(500)>>}}

SingleMjpRows ==
    [Scheme_Code : {"MJP-5000"}, District : {"Thane"},
     Expenditure_Actuals : FinCells, Expenditure_Lakhs : FinCells]

GsdaRows ==
    [State_Name : {"Maharashtra"}, District_Name : {"Pune", "Thane"},
     Samples_Tested : {Num(0), Num(2)},
     Contaminated_Samples : {Num(0), Num(1), Num(3)}]
    \cup
    [State_Name : {"A & N Islands", "Andaman & Nicobar Islands", NaN},
     District_Name : {"Thane"}, Samples_Tested : {Num(3)},
     Contaminated_Samples : {Num(1)}]

PgrsRows ==
    [Ticket_ID : {"TKT-1000", "TKT-2000"}, District : {"Thane"},
     Date_Reported : {"2024-03-01", "2024-03-06", "not a date"},
     Date_Resolved : {"2024-03-01", "2024-03-06", NaN}]

\* One table of each source, after the generator's injected challenges
Sample ==
    [s \in Sources |->
        CASE s = "imis_tap" -> << >>
          [] s = "imis_schemes" ->
                <<[IMIS_ID |-> "20118869", District |-> "Thane",
                   Scheme_Name |-> "Retrofitted PWS Thane", Status |-> "Completed"]>>
          [] s = "zp" ->
                <<[Scheme_ID |-> "20118869", District |-> "Thane",
                   Physical_Progress |-> Num(0), Financial_Progress |-> Num(0)],
                  [Scheme_ID |-> "SCH-10000000", District |-> "Pune",
                   Physical_Progress |-> Num(0), Financial_Progress |-> Num(45)]>>
          [] s = "mjp" ->
                <<[Scheme_Code |-> "MJP-5000", District |-> "Thane",
                   Expenditure_Actuals |-> Num(500),
                   Expenditure_Lakhs |-> Num(50000000)]>>
          [] s = "gsda" ->
                <<[State_Name |-> "Maharashtra", District_Name |-> "Thane",
                   Samples_Tested |-> Num(1000), Contaminated_Samples |-> Num(20)],
                  [State_Name |-> "A & N Islands", District_Name |-> "Pune",
                   Samples_Tested |-> Num(500), Contaminated_Samples |-> Num(50)]>>
          [] s = "pgrs" ->
                <<[Ticket_ID |-> "TKT-1000", District |-> "Thane",
                   Date_Reported |-> "2024-03-06", Date_Resolved |-> "2024-03-01"]>>]

\* every subset of the six sources
SourceInputs == {[s \in P |-> Sample[s]] : P \in SUBSET Sources}

\* scheme master and zp rows, MaxRows + 1 rows between them at most
SchemeInputs ==
    UNION {{Table("imis_schemes", i) @@ Table("zp", z) @@ Table("gsda", Sample["gsda"]) :
                i \in [1..k -> ImisRows],
                z \in SeqsUpTo(ZpRows, MaxRows + 1 - k)} : k \in 1..MaxRows}

MalformedZpInputs ==
    {Table("imis_schemes", <<i>>) @@ Table("zp", z) @@ Table("gsda", Sample["gsda"]) :
        i \in {r \in ImisRows : r["IMIS_ID"] = "20118869" /\ r["Status"] \in {"Completed", NaN}},
        z \in NonEmptySeqsUpTo(MalformedZpRows, MaxRows)}

FinancialInputs ==
    {Table("imis_schemes", Sample["imis_schemes"]) @@ Table("mjp", m)
        @@ Table("gsda", Sample["gsda"]) :
        m \in NonEmptySeqsUpTo(MjpRows, MaxRows) \cup {<<r>> : r \in SingleMjpRows}}

QualityInputs ==
    {Table("imis_schemes", Sample["imis_schemes"]) @@ Table("zp", Sample["zp"])
        @@ Table("gsda", g) :
        g \in SeqsUpTo(GsdaRows, MaxRows)}

GrievanceInputs ==
    {Table("imis_schemes", Sample["imis_schemes"]) @@ Table("gsda", Sample["gsda"])
        @@ Table("pgrs", p) :
        p \in SeqsUpTo(PgrsRows, MaxRows)}

Inputs ==
    SourceInputs \cup SchemeInputs \cup MalformedZpInputs \cup FinancialInputs
    \cup QualityInputs \cup GrievanceInputs

Init ==
    /\ dfs \in Inputs
    /\ pc = "standardize"
    /\ anomalies = << >>
    /\ df_mjp = << >>
    /\ unified = << >>
    /\ unified_districts = Unbound
    /\ result = NoResult
    /\ fin = << >>

Spec == Init /\ [][Next]_vars

----------------------------------------------------------------------------
(* The corrector on its own: a row, the row it is corrected to, and that row
   corrected again *)

FinRow(actuals, lakhs) ==
    [Expenditure_Actuals |-> actuals, Expenditure_Lakhs |-> lakhs]

Corrected(row) ==
    FinRow(Num(clean_financials(row)[1]), Num(clean_financials(row)[2]))

InitCorrector ==
    /\ fin \in {<<FinRow(a, l)>> : a \in FinCells, l \in FinCells}
    /\ pc = "corrector"
    /\ dfs = << >>
    /\ anomalies = << >>
    /\ df_mjp = << >>
    /\ unified = << >>
    /\ unified_districts = Unbound
    /\ result = NoResult

ApplyCorrector ==
    /\ pc = "corrector"
    /\ Len(fin) <= 2
    /\ fin' = Append(fin, Corrected(fin[Len(fin)]))
    /\ UNCHANGED <<dfs, pc, anomalies, df_mjp, unified, unified_districts, result>>

NextCorrector == ApplyCorrector

SpecCorrector == InitCorrector /\ [][NextCorrector]_vars

----------------------------------------------------------------------------
(* Properties *)

Ended == pc \in {"done", "raised"}
Returned == pc = "done" /\ result.status = "success"

\* what the caller of an ended run holds
ResultAnomalies == IF result.status = "success" THEN result.anomalies ELSE << >>
ResultSchemes == IF result.status = "success" THEN result.repo_schemes ELSE << >>

OfType(as, type) == SelectSeq(as, LAMBDA a : a["Issue_Type"] = type)
Ids(as) == [i \in 1..Len(as) |-> as[i]["Scheme_ID"]]
Present(key) == key \in DOMAIN dfs
TableOf(key) == IF Present(key) THEN dfs[key] ELSE << >>

\* a cell that cannot be coerced: a non-numeric progress or expenditure
\* value, a date text that is no date
MalformedRows ==
    {r \in Range(TableOf("zp")) :
        r["Physical_Progress"] = NonNumeric \/ r["Financial_Progress"] = NonNumeric}
    \cup {r \in Range(TableOf("mjp")) :
        r["Expenditure_Actuals"] = NonNumeric \/ r["Expenditure_Lakhs"] = NonNumeric}
    \cup {r \in Range(TableOf("pgrs")) :
        to_datetime(r["Date_Reported"]).t = "error"
        \/ to_datetime(r["Date_Resolved"]).t = "error"}

\* C1: for every subset of the six sources the run ends in a success result
\* if and only if imis_schemes is in the subset
C1_SuccessIffSchemeMaster ==
    (Ended /\ dfs \in SourceInputs) =>
        (result.status = "success" <=> Present("imis_schemes"))

\* What the code does instead: on these inputs a run succeeds exactly when
\* both imis_schemes and gsda are handed to it
C1_SuccessIffSchemeMasterAndQuality ==
    (Ended /\ dfs \in SourceInputs) =>
        (result.status = "success" <=> (Present("imis_schemes") /\ Present("gsda")))

\* C2: with imis_schemes present (and gsda, without which no run succeeds), a
\* run whose zp, mjp or pgrs table holds a row with a value that cannot be
\* coerced still returns a success result
C2_MalformedRowNeverAborts ==
    (Ended /\ Present("imis_schemes") /\ Present("gsda") /\ MalformedRows # {}) =>
        result.status = "success"

\* C3: every scheme identifier of the scheme master (its identifiers being
\* distinct) is in exactly one row of repo_schemes
C3_SchemeIdOnce ==
    (Returned /\ Cardinality({r["IMIS_ID"] : r \in Range(dfs["imis_schemes"])})
                    = Len(dfs["imis_schemes"])) =>
        \A r \in Range(dfs["imis_schemes"]) :
            Cardinality({i \in 1..Len(result.repo_schemes) :
                result.repo_schemes[i]["Scheme_ID"] = r["IMIS_ID"]}) = 1

\* C4: every district record has 0 <= Contamination_Rate <= 100 when its
\* summed Samples_Tested is > 0, and Contamination_Rate 0.0 when it is 0
C4_RateWithinPercent ==
    Returned =>
        \A r \in Range(result.repo_districts) :
            /\ r["Samples_Tested"] > 0 =>
                (0 <= r["Contamination_Rate"] /\ r["Contamination_Rate"] <= 100 * RateScale)
            /\ r["Samples_Tested"] = 0 => r["Contamination_Rate"] = 0

\* the detector of an issue type, in the order the claim gives, and the
\* stage of the run that appends it
DetectorRank(a) ==
    CASE a["Issue_Type"] = "Naming Convention" -> 1
      [] a["Issue_Type"] = "Sync Conflict" -> 2
      [] a["Issue_Type"] = "Ghost Asset" -> 3
      [] a["Issue_Type"] = "Column Mismatch" -> 4
      [] a["Issue_Type"] = "Logical Data Error" -> 5

StageRank(a) ==
    CASE a["Issue_Type"] = "Naming Convention" -> 1
      [] a["Issue_Type"] \in {"Sync Conflict", "Ghost Asset"} -> 2
      [] a["Issue_Type"] = "Column Mismatch" -> 3
      [] a["Issue_Type"] = "Logical Data Error" -> 4

\* C5 as stated: in the returned anomaly list every Naming Convention anomaly
\* precedes every Sync Conflict anomaly, every Sync Conflict every Ghost
\* Asset, every Ghost Asset every Column Mismatch, every Column Mismatch
\* every Logical Data Error
C5_DetectorOrder ==
    Returned =>
        \A i, j \in 1..Len(result.anomalies) :
            i < j => DetectorRank(result.anomalies[i]) <= DetectorRank(result.anomalies[j])

\* C5 amended: the anomaly list is at every moment in the order naming, then
\* Sync Conflict and Ghost Asset together (row by row, in no order between
\* the two types), then Column Mismatch, then Logical Data Error
C5_StageOrder ==
    \A i, j \in 1..Len(anomalies) :
        i < j => StageRank(anomalies[i]) <= StageRank(anomalies[j])

\* C5 witness: a returned list that starts with a Naming Convention anomaly
\* and has a Ghost Asset anomaly before a Sync Conflict anomaly
C5_Witness ==
    /\ Returned
    /\ result.anomalies # << >>
    /\ result.anomalies[1]["Issue_Type"] = "Naming Convention"
    /\ \E i, j \in 1..Len(result.anomalies) :
        /\ i < j
        /\ result.anomalies[i]["Issue_Type"] = "Ghost Asset"
        /\ result.anomalies[j]["Issue_Type"] = "Sync Conflict"

\* the scheme identifiers with a "completed" master row and a zp row whose
\* Physical_Progress is 0
ConflictIds ==
    {r["IMIS_ID"] : r \in {x \in Range(TableOf("imis_schemes")) :
        /\ notnull_text(x["Status"]) /\ Lower(x["Status"]) = "completed"
        /\ \E z \in Range(TableOf("zp")) :
            z["Scheme_ID"] = x["IMIS_ID"] /\ z["Physical_Progress"] = Num(0)}}

SyncConflictReported(as, rows, id) ==
    /\ Anomaly(id, "Sync Conflict", "Critical") \in Range(as)
    /\ \E r \in Range(rows) :
        r["Scheme_ID"] = id /\ r["Unified_Status"] = "DATA CONFLICT"

\* C6: for every scheme id with a "completed" master row and a zp row with
\* Physical_Progress 0 (no cell of the input being malformed) the run emits a
\* Critical Sync Conflict anomaly for it and its Unified_Status in
\* repo_schemes is "DATA CONFLICT"
C6_ConflictReported ==
    (Ended /\ MalformedRows = {}) =>
        \A id \in ConflictIds : SyncConflictReported(ResultAnomalies, ResultSchemes, id)

\* What holds of the code: every run that returns reports the conflict
C6_ConflictReportedWhenReturned ==
    Returned =>
        \A id \in ConflictIds : SyncConflictReported(result.anomalies, result.repo_schemes, id)

NumericFin(r) == r["Expenditure_Actuals"].t = "num" /\ r["Expenditure_Lakhs"].t = "num"

Swaps(r) ==
    /\ r["Expenditure_Lakhs"].v > Units(SwapThreshold)
    /\ r["Expenditure_Actuals"].v < Units(SwapThreshold)

\* C7: with gsda present and every financial row numeric, the Column Mismatch
\* anomalies of the run are, row by row, those of the rows the corrector
\* swaps
C7_MismatchIffSwapped ==
    (Ended /\ Present("imis_schemes") /\ Present("mjp") /\ Present("gsda")
        /\ \A r \in Range(dfs["mjp"]) : NumericFin(r)) =>
        Ids(OfType(ResultAnomalies, "Column Mismatch"))
            = [i \in 1..Len(SelectSeq(dfs["mjp"], Swaps)) |->
                    SelectSeq(dfs["mjp"], Swaps)[i]["Scheme_Code"]]

\* What holds of the code: in a run that returns, the Column Mismatch
\* anomalies are those of the numeric rows the corrector swaps whose two
\* amounts differ by more than the tolerance
SwapsBeyondTolerance(r) ==
    Swaps(r) /\ r["Expenditure_Lakhs"].v - r["Expenditure_Actuals"].v > Units(MismatchTolerance)

C7_MismatchIffSwappedBeyondTolerance ==
    (Returned /\ Present("mjp") /\ \A r \in Range(dfs["mjp"]) : NumericFin(r)) =>
        Ids(OfType(result.anomalies, "Column Mismatch"))
            = [i \in 1..Len(SelectSeq(dfs["mjp"], SwapsBeyondTolerance)) |->
                    SelectSeq(dfs["mjp"], SwapsBeyondTolerance)[i]["Scheme_Code"]]

\* C8: the corrector is idempotent: the row corrected twice is the row
\* corrected once
C8_Idempotent == Len(fin) = 3 => fin[3] = fin[2]

\* C8 witness: a row the corrector swapped, corrected again
C8_Witness ==
    /\ Len(fin) = 3
    /\ fin[1] = FinRow(Num(500), Num(50000000))
    /\ fin[2] = FinRow(Num(50000000), Num(500))

\* C9 as stated: a row in which either amount is non-numeric or missing is
\* corrected to (0.0, 0.0)
C9_MissingOrNonNumericGivesZero ==
    (Len(fin) >= 2 /\ ~NumericFin(fin[1])) => fin[2] = FinRow(Num(0), Num(0))

\* C9 amended: a row in which either amount is non-numeric is corrected to
\* (0.0, 0.0); otherwise a missing amount counts as 0.0, the other amount
\* keeps its value, and the pair is swapped when the amount taken as lakhs is
\* above the threshold (the amount taken as actuals, 0.0 or not, being below
\* it)
C9_NonNumericGivesZeroMissingCountsAsZero ==
    (Len(fin) >= 2 /\ ~NumericFin(fin[1])) =>
        LET a == fin[1]["Expenditure_Actuals"]
            l == fin[1]["Expenditure_Lakhs"]
            act == IF a = NA THEN 0 ELSE a.v
            lakhs == IF l = NA THEN 0 ELSE l.v
        IN IF a = NonNumeric \/ l = NonNumeric THEN fin[2] = FinRow(Num(0), Num(0))
           ELSE IF lakhs > Units(SwapThreshold) /\ act < Units(SwapThreshold)
           THEN fin[2] = FinRow(Num(lakhs), Num(act))
           ELSE fin[2] = FinRow(Num(act), Num(lakhs))

\* C9 witness: missing actuals beside lakhs above the threshold, corrected to
\* (lakhs, 0.0)
C9_Witness ==
    /\ Len(fin) >= 2
    /\ fin[1] = FinRow(NA, Num(50000000))
    /\ fin[2] = FinRow(Num(50000000), Num(0))

ResolvedBeforeReported(r) ==
    /\ to_datetime(r["Date_Resolved"]).t = "ts"
    /\ to_datetime(r["Date_Reported"]).t = "ts"
    /\ to_datetime(r["Date_Resolved"]).v < to_datetime(r["Date_Reported"]).v

\* C10: the Logical Data Error anomalies of a run are, row by row, one of
\* Severity Low with the Ticket_ID of each grievance row whose Date_Resolved
\* is strictly earlier than its Date_Reported, and no other
C10_OnePerBackdatedTicket ==
    (Ended /\ Present("imis_schemes") /\ Present("pgrs") /\ MalformedRows = {}) =>
        OfType(ResultAnomalies, "Logical Data Error")
            = [i \in 1..Len(SelectSeq(dfs["pgrs"], ResolvedBeforeReported)) |->
                    Anomaly(SelectSeq(dfs["pgrs"], ResolvedBeforeReported)[i]["Ticket_ID"],
                            "Logical Data Error", "Low")]

\* What holds of the code: the same of every run that returns
C10_OnePerBackdatedTicketWhenReturned ==
    (Returned /\ Present("pgrs")) =>
        OfType(result.anomalies, "Logical Data Error")
            = [i \in 1..Len(SelectSeq(dfs["pgrs"], ResolvedBeforeReported)) |->
                    Anomaly(SelectSeq(dfs["pgrs"], ResolvedBeforeReported)[i]["Ticket_ID"],
                            "Logical Data Error", "Low")]

\* the water-quality rows whose State_Name is not literally one of the two
\* canonical names
NonCanonical(row) ==
    row["State_Name"] \notin {"Andaman & Nicobar Islands", "Maharashtra"}

NamingAnomaliesFor(rows) ==
    [i \in 1..Len(SelectSeq(rows, NonCanonical)) |->
        Anomaly("N/A", "Naming Convention", "Medium")]

\* C11: once the naming check has run, the anomaly list holds one Naming
\* Convention anomaly of Severity Medium and Scheme_ID "N/A" per water-quality
\* row whose State_Name is not literally "Andaman & Nicobar Islands" or
\* "Maharashtra", and no other; a run that returns returns them
C11_NamingPerNonCanonicalRow ==
    (Present("imis_schemes") /\ Present("gsda")) =>
        /\ pc \notin {"standardize", "naming"} =>
            OfType(anomalies, "Naming Convention") = NamingAnomaliesFor(dfs["gsda"])
        /\ Returned =>
            OfType(result.anomalies, "Naming Convention") = NamingAnomaliesFor(dfs["gsda"])

\* C11 witness: a returned run over the rows "Andaman & Nicobar Islands" and
\* "A & N Islands", the synonym flagged and the canonical name not
C11_Witness ==
    /\ Returned
    /\ Present("gsda")
    /\ {r["State_Name"] : r \in Range(dfs["gsda"])}
            = {"Andaman & Nicobar Islands", "A & N Islands"}
    /\ Len(OfType(result.anomalies, "Naming Convention")) = 1

\* the columns of a unified row as status inference reads them: an absent
\* progress or expenditure column counts as 0
StatusText(r) == r["Status"]
Progress(r) == IF "Physical_Progress" \in DOMAIN r THEN r["Physical_Progress"] ELSE Num(0)
Expenditure(r) ==
    IF "Cleaned_Expenditure_INR" \in DOMAIN r THEN r["Cleaned_Expenditure_INR"] ELSE Num(0)
IsMissingStatus(r) == Lower(StatusText(r)) \in {"-", "nan"}
Above(cell, n) == cell.t = "num" /\ cell.v > n

\* the first matching case of the ordered list of status inference
FirstMatch(r) ==
    CASE Lower(StatusText(r)) = "completed" /\ Progress(r) = Num(0) -> "DATA CONFLICT"
      [] OTHER ->
        CASE IsMissingStatus(r) /\ Above(Progress(r), 90) -> "Completed (ZP)"
          [] OTHER ->
            CASE IsMissingStatus(r) /\ Above(Progress(r), 0) -> "Ongoing (ZP)"
              [] OTHER ->
                CASE IsMissingStatus(r) /\ Above(Expenditure(r), 0) -> "Financial Only"
                  [] OTHER ->
                    IF IsMissingStatus(r) THEN "Unknown" ELSE StatusText(r)

NumericProgress == \A z \in Range(TableOf("zp")) : z["Physical_Progress"] # NonNumeric

\* C12: once the unified scheme rows are built (no zp row holding a
\* non-numeric Physical_Progress), every row carries as Unified_Status the
\* first matching case of the ordered list, zp or mjp present or not, a
\* missing progress or expenditure value counting as 0
C12_StatusIsFirstMatch ==
    (unified # << >> /\ NumericProgress) =>
        \A r \in Range(unified) :
            "Unified_Status" \in DOMAIN r /\ r["Unified_Status"] = FirstMatch(r)

\* C12 witness: unified rows inferred as "Completed (ZP)" from a progress
\* above 90 and as "DATA CONFLICT" for a completed scheme without a zp row
C12_Witness ==
    /\ unified # << >>
    /\ NumericProgress
    /\ \E r \in Range(unified) :
        /\ "Unified_Status" \in DOMAIN r /\ r["Unified_Status"] = "Completed (ZP)"
        /\ r["Status"] = "-" /\ r["Physical_Progress"] = Num(95)
    /\ \E r \in Range(unified) :
        /\ "Unified_Status" \in DOMAIN r /\ r["Unified_Status"] = "DATA CONFLICT"
        /\ \A z \in Range(TableOf("zp")) : z["Scheme_ID"] # r["Scheme_ID"]

ConflictSurfaced(as, rows) ==
    \A r \in Range(rows) :
        r["Unified_Status"] = "DATA CONFLICT" =>
            Anomaly(r["Scheme_ID"], "Sync Conflict", "Critical") \in Range(as)

\* C13: in every run that returns, for every combination of present sources,
\* a row of repo_schemes with Unified_Status "DATA CONFLICT" for scheme id X
\* has a Critical Sync Conflict anomaly with Scheme_ID X in the anomaly list
C13_ConflictNeverSilent ==
    Returned => ConflictSurfaced(result.anomalies, result.repo_schemes)

\* What holds of the code: the same of every run that returns and was handed
\* the zp source, with or without rows
C13_ConflictNeverSilentWithZp ==
    (Returned /\ Present("zp")) => ConflictSurfaced(result.anomalies, result.repo_schemes)

====
